---------------------------- MODULE Spec2Model ----------------------------
(***************************************************************************)
(* A model of averykhoo/temporal_patterns: the per-period density model    *)
(* ModuloPattern and the aggregator TimeStampSetV2 of                      *)
(* periodic_patterns_v2.py, with the circular density sampling of          *)
(* kernel_density.py.                                                      *)
(*                                                                         *)
(* Real numbers are fixed point: a phase value v is the integer v * Res.   *)
(* Ratios that the code compares are compared exactly, by cross            *)
(* multiplication.  A sampled density curve is held by the data that       *)
(* defines it (the fitted points, the sampled interval and the number of   *)
(* samples); KdeXs and KdeYs give its two tuples.                          *)
(***************************************************************************)
EXTENDS Integers, Sequences, FiniteSets, TLC

VARIABLES pat, tss, ret

vars == <<pat, tss, ret>>

---------------------------------------------------------------------------
(* Numbers *)

\* ticks per unit of phase (14 * 24: an hour is a whole number of ticks of a
\* day, a week and a fortnight)
Res == 336

\* math.inf; -PosInf is -math.inf
PosInf == 2147483647

Abs(x) == IF x < 0 THEN -x ELSE x

PyMin(a, b) == IF b < a THEN b ELSE a

PyMax(a, b) == IF b > a THEN b ELSE a

\* Python's a // b (floor division, any nonzero b)
FloorDiv(a, b) == IF b > 0 THEN a \div b ELSE (-a) \div (-b)

\* Python's divmod(a, b): the remainder takes the sign of b
DivMod(a, b) == <<FloorDiv(a, b), a - FloorDiv(a, b) * b>>

RECURSIVE SumSeq(_)
SumSeq(s) == IF s = <<>> THEN 0 ELSE Head(s) + SumSeq(Tail(s))

\* dict.setdefault(key, []).append(item)
EmptyDict == [k \in {} |-> <<>>]

SetDefaultAppend(d, key, item) ==
    [k \in DOMAIN d \cup {key} |->
        IF k = key
        THEN (IF key \in DOMAIN d THEN Append(d[key], item) ELSE <<item>>)
        ELSE d[k]]

---------------------------------------------------------------------------
(* kernel_density.py *)

\* The two functions are modelled on the argument they are written for: the
\* observations as a numpy column of numbers, on which xs % modulo is taken
\* element by element and KernelDensity.fit accepts any non-empty sample.
\* ModuloPattern.kde hands them self.remainders, a Python list, on which
\* xs % modulo raises TypeError; the model follows the density through as if
\* the list were converted first, so what is shown about curves, vectors,
\* likelihoods and similarities is about the values these would have.

\* the curve plot_kde samples: the estimator fitted on `fit`, evaluated at
\* np.linspace(lo, hi, steps + 1), of which the first n samples are kept
Curve(fit, lo, hi, steps, n) ==
    [fit |-> fit, lo |-> lo, hi |-> hi, steps |-> steps, n |-> n]

NoCurve == Curve(<<>>, 0, 0, 0, 0)

\* kde_xs[i], times c.steps
XsScaled(c, i) == c.lo * c.steps + i * (c.hi - c.lo)

\* the gaussian kernel at distance d / steps from a fitted point, with the
\* default bandwidth of 3% of (hi - lo), quantised: never zero
Kernel(c, d) ==
    LET w == 3 * (c.hi - c.lo) * c.steps
    IN  IF 100 * d <= w THEN 8
        ELSE IF 100 * d <= 2 * w THEN 4
        ELSE IF 100 * d <= 3 * w THEN 2
        ELSE 1

\* the sum of the kernel at sample i over the fitted points lo .. hi
RECURSIVE KernelSum(_, _, _, _)
KernelSum(c, i, lo, hi) ==
    IF lo > hi THEN 0
    ELSE IF lo = hi THEN Kernel(c, Abs(XsScaled(c, i) - c.fit[lo] * c.steps))
    ELSE KernelSum(c, i, lo, (lo + hi) \div 2) + KernelSum(c, i, (lo + hi) \div 2 + 1, hi)

\* tuple(kde_xs): sample i is at xs[i].num / xs[i].den
KdeXs(c) == [i \in 0 .. c.n - 1 |-> [num |-> XsScaled(c, i), den |-> c.steps]]

\* tuple(kde_ys): the density at sample i is ys[i].num / ys[i].den kernel units
KdeYs(c) == [i \in 0 .. c.n - 1 |-> [num |-> KernelSum(c, i, 1, Len(c.fit)), den |-> Len(c.fit)]]

\* KernelDensity.fit raises ValueError on an empty sample
PlotKdeRaises(xs, min_val, max_val, n_samples) == Len(xs) = 0

PlotKde(xs, min_val, max_val, n_samples) ==
    Curve(xs, min_val, max_val, n_samples - 1, n_samples)

PlotKdeModuloRaises(xs, modulo, n_samples) ==
    PlotKdeRaises(xs \o xs \o xs, 0, modulo, n_samples + 1)

DropLast(c) == [c EXCEPT !.n = c.n - 1]

PlotKdeModulo(xs, modulo, n_samples) ==
    LET xs_mod == [i \in 1 .. Len(xs) |-> DivMod(xs[i], modulo)[2]]
        xs_extended == [i \in 1 .. Len(xs) |-> xs_mod[i] - modulo]
                       \o xs_mod
                       \o [i \in 1 .. Len(xs) |-> xs_mod[i] + modulo]
    IN  DropLast(PlotKde(xs_extended, 0, modulo, n_samples + 1))

---------------------------------------------------------------------------
(* ModuloPattern *)

KdeDefaultDim == 1000

\* a tuple of numbers elem / vector_length, held by the curve whose ys are
\* divided; tuple() is the empty one
EmptyTuple == [ys |-> NoCurve, n |-> 0]

Normalised(c) == [ys |-> c, n |-> c.n]

\* sum(elem ** 2 for elem in kde_ys) over the samples lo .. hi, in the
\* unit of the numerators
RECURSIVE SumSquares(_, _, _)
SumSquares(c, lo, hi) ==
    IF lo > hi THEN 0
    ELSE IF lo = hi THEN LET y == KdeYs(c)[lo].num IN y * y
    ELSE SumSquares(c, lo, (lo + hi) \div 2) + SumSquares(c, (lo + hi) \div 2 + 1, hi)

\* the elements divided by the sum of the ys, not by their L2 length
VectorElemsBySum(v) ==
    LET total == SumSeq([i \in 1 .. v.n |-> KdeYs(v.ys)[i - 1].num])
    IN  [i \in 0 .. v.n - 1 |-> [num |-> KdeYs(v.ys)[i].num, len2 |-> total * total]]

\* element i of the tuple is num / sqrt(len2): the common denominator of the
\* ys cancels against that of vector_length
VectorElems(v) ==
    [i \in 0 .. v.n - 1 |-> [num |-> KdeYs(v.ys)[i].num, len2 |-> SumSquares(v.ys, 0, v.n - 1)]]

NoPattern == [exists |-> FALSE]

\* __post_init__ without the check of modulo
PostInitSkipsModulo(name, vector_dimension, modulo) ==
    IF Len(name) = 0 THEN "ValueError"
    ELSE IF ~(vector_dimension > 0) THEN "TypeError"
    ELSE "none"

\* the first check of __post_init__ that fails, "none" when all pass
PostInitRaises(name, vector_dimension, modulo) ==
    IF Len(name) = 0 THEN "ValueError"
    ELSE IF modulo = 0 THEN "ValueError"
    ELSE IF ~(vector_dimension > 0) THEN "TypeError"
    ELSE "none"

NewPattern(name, vector_dimension, modulo, min_periods, min_items) ==
    [exists |-> TRUE,
     name |-> name,
     vector_dimension |-> vector_dimension,
     modulo |-> modulo,
     min_periods |-> min_periods,
     min_items |-> min_items,
     min |-> PosInf,
     max |-> -PosInf,
     remainders |-> <<>>,
     remainders_idx |-> EmptyDict,
     quotients_idx |-> EmptyDict,
     kde |-> [d \in {} |-> NoCurve],
     vector |-> EmptyTuple]

\* add that leaves the cached curves and the cached vector in place
PatternAddKeepsCaches(p, value, item) ==
    LET qr == DivMod(value, p.modulo)
    IN  [p EXCEPT !.min = PyMin(value, p.min),
                  !.max = PyMax(value, p.max),
                  !.remainders = Append(p.remainders, qr[2]),
                  !.quotients_idx = SetDefaultAppend(p.quotients_idx, qr[1], item),
                  !.remainders_idx = SetDefaultAppend(p.remainders_idx, qr[2], item)]

\* add that overwrites max with the value added
PatternAddSetsMax(p, value, item) ==
    LET qr == DivMod(value, p.modulo)
    IN  [p EXCEPT !.kde = [d \in {} |-> NoCurve],
                  !.vector = EmptyTuple,
                  !.min = PyMin(value, p.min),
                  !.max = value,
                  !.remainders = Append(p.remainders, qr[2]),
                  !.quotients_idx = SetDefaultAppend(p.quotients_idx, qr[1], item),
                  !.remainders_idx = SetDefaultAppend(p.remainders_idx, qr[2], item)]

\* ModuloPattern.add(value, item)
PatternAdd(p, value, item) ==
    LET qr == DivMod(value, p.modulo)
    IN  [p EXCEPT !.kde = [d \in {} |-> NoCurve],
                  !.vector = EmptyTuple,
                  !.min = PyMin(value, p.min),
                  !.max = PyMax(value, p.max),
                  !.remainders = Append(p.remainders, qr[2]),
                  !.quotients_idx = SetDefaultAppend(p.quotients_idx, qr[1], item),
                  !.remainders_idx = SetDefaultAppend(p.remainders_idx, qr[2], item)]

\* ModuloPattern.add(value) with a value that is no number: the two caches
\* are reset, then min(value, self.min) raises TypeError
PatternAddRejected(p, value) ==
    [p EXCEPT !.kde = [d \in {} |-> NoCurve],
              !.vector = EmptyTuple]

\* the modulo kde passes to plot_kde_modulo: the number 1
KdeModulo == Res

\* ModuloPattern.kde(dim) raises when the fit does
PatternKdeRaises(p, dim) ==
    dim \notin DOMAIN p.kde /\ PlotKdeModuloRaises(p.remainders, KdeModulo, dim)

\* the pattern after kde(dim)
PatternKdeState(p, dim) ==
    IF dim \in DOMAIN p.kde THEN p
    ELSE [p EXCEPT !.kde = [d \in DOMAIN p.kde \cup {dim} |->
                               IF d = dim THEN PlotKdeModulo(p.remainders, KdeModulo, dim)
                               ELSE p.kde[d]]]

\* the value kde(dim) returns
PatternKde(p, dim) == PatternKdeState(p, dim).kde[dim]


\* ModuloPattern.vector
PatternVectorRaises(p) ==
    p.vector.n # p.vector_dimension /\ PatternKdeRaises(p, p.vector_dimension)

PatternVectorState(p) ==
    IF p.vector.n # p.vector_dimension
    THEN [PatternKdeState(p, p.vector_dimension) EXCEPT
              !.vector = Normalised(PatternKde(p, p.vector_dimension))]
    ELSE p

PatternVector(p) == PatternVectorState(p).vector

\* n_periods without the clamp max(0.0, ...): -inf on an empty pattern
NPeriodsNoClamp(p) ==
    IF p.max = -PosInf /\ p.min = PosInf
    THEN [inf |-> FALSE, num |-> -PosInf, den |-> 1]
    ELSE [inf |-> FALSE, num |-> p.max - p.min, den |-> Abs(p.modulo)]

\* ModuloPattern.n_periods, as the ratio num / den (den > 0) or +inf
NPeriods(p) ==
    IF p.max = -PosInf /\ p.min = PosInf
    THEN (IF p.modulo > 0 THEN [inf |-> FALSE, num |-> 0, den |-> 1]
                          ELSE [inf |-> TRUE, num |-> 0, den |-> 1])
    ELSE IF p.modulo > 0
         THEN [inf |-> FALSE, num |-> PyMax(0, p.max - p.min), den |-> p.modulo]
         ELSE [inf |-> FALSE, num |-> 0, den |-> 1]

\* ModuloPattern.is_valid
IsValid(p) ==
    /\ (NPeriods(p).inf \/ NPeriods(p).num >= p.min_periods * NPeriods(p).den)
    /\ Len(p.remainders) >= p.min_items

\* sorted(keys)
RECURSIVE Sorted(_)
Sorted(S) ==
    IF S = {} THEN <<>>
    ELSE LET m == CHOOSE x \in S : \A y \in S : x <= y
         IN  <<m>> \o Sorted(S \ {m})

\* one pass of the loop of consecutive: st = <<out, buffer>>
ConsecutiveStep(st, quotient, min_length) ==
    LET out == st[1]
        buffer == st[2]
    IN  IF buffer = <<>> THEN <<out, <<quotient>>>>
        ELSE IF quotient - 1 = buffer[Len(buffer)] THEN <<out, Append(buffer, quotient)>>
        ELSE IF quotient # buffer[Len(buffer)]
             THEN <<IF Len(buffer) >= min_length THEN Append(out, buffer) ELSE out, <<>>>>
        ELSE st

RECURSIVE ConsecutiveLoop(_, _, _)
ConsecutiveLoop(st, keys, min_length) ==
    IF keys = <<>> THEN st
    ELSE ConsecutiveLoop(ConsecutiveStep(st, Head(keys), min_length), Tail(keys), min_length)

\* ModuloPattern.consecutive(min_length)
Consecutive(p, min_length) ==
    ConsecutiveLoop(<<<<>>, <<>>>>, Sorted(DOMAIN p.quotients_idx), min_length)[1]

\* bisect.bisect_left(xs, r, lo, hi) on the xs of curve c, r in ticks
RECURSIVE BisectLeft(_, _, _, _)
BisectLeft(c, r, lo, hi) ==
    IF lo < hi
    THEN LET mid == (lo + hi) \div 2
         IN  IF KdeXs(c)[mid].num < r * KdeXs(c)[mid].den
             THEN BisectLeft(c, r, mid + 1, hi)
             ELSE BisectLeft(c, r, lo, mid)
    ELSE lo

\* likelihood that looks the value up, not its remainder
PatternLikelihoodOfValue(p, value) ==
    LET c == PatternKde(p, KdeDefaultDim)
        idx == BisectLeft(c, value, 0, c.n) % c.n
    IN  KdeYs(c)[idx]

\* likelihood that records the value it is asked about
PatternLikelihoodStateLearns(p, value) ==
    PatternKdeState(PatternAdd(p, value, "None"), KdeDefaultDim)

\* ModuloPattern.likelihood(value)
PatternLikelihoodRaises(p, value) == PatternKdeRaises(p, KdeDefaultDim)

PatternLikelihoodState(p, value) == PatternKdeState(p, KdeDefaultDim)

PatternLikelihood(p, value) ==
    LET remainder == DivMod(value, p.modulo)[2]
        c == PatternKde(p, KdeDefaultDim)
        idx == BisectLeft(c, remainder, 0, c.n) % c.n
    IN  KdeYs(c)[idx]

\* the curve and the vector computed now from all the observations
FreshKde(p, dim) == PlotKdeModulo(p.remainders, KdeModulo, dim)

FreshVector(p) == Normalised(FreshKde(p, p.vector_dimension))

---------------------------------------------------------------------------
(* One ModuloPattern on its own: construction, add and the reads *)

MaxPatAdds == 3

CtorNames == {"", "week"}

CtorDims == {-1, 0, 2}

CtorModulos == {0, Res, 2 * Res, -Res}

CtorMinPeriods == {0, 2}

CtorMinItems == {0, 2}

Values == {-(Res \div 4), Res \div 2, 3 * Res}

LikValues == {Res \div 2, 3 * Res - 1}

Items == {"None", "x"}

KdeDims == {3}

MinLengths == {2}

Ret(op, args, raised, value) == [op |-> op, args |-> args, raised |-> raised, value |-> value]

NoRet == Ret("none", <<>>, "none", 0)

NoTss == [exists |-> FALSE]

PatInit ==
    /\ pat = NoPattern
    /\ tss = NoTss
    /\ ret = NoRet

\* ModuloPattern(name, vector_dimension=..., modulo=..., min_periods=..., min_items=...)
Construct(name, vector_dimension, modulo, min_periods, min_items) ==
    /\ ~pat.exists
    /\ LET raised == PostInitRaises(name, vector_dimension, modulo)
       IN  /\ pat' = IF raised = "none"
                     THEN NewPattern(name, vector_dimension, modulo, min_periods, min_items)
                     ELSE pat
           /\ ret' = Ret("init", <<name, vector_dimension, modulo>>, raised, 0)
    /\ UNCHANGED tss

PatAdd(value, item) ==
    /\ pat.exists
    /\ Len(pat.remainders) < MaxPatAdds
    /\ pat' = PatternAdd(pat, value, item)
    /\ ret' = Ret("add", <<value, item>>, "none", 0)
    /\ UNCHANGED tss

PatAddMalformed(value) ==
    /\ pat.exists
    /\ pat' = PatternAddRejected(pat, value)
    /\ ret' = Ret("add", <<value, "None">>, "TypeError", 0)
    /\ UNCHANGED tss

PatKde(dim) ==
    /\ pat.exists
    /\ IF PatternKdeRaises(pat, dim)
       THEN /\ ret' = Ret("kde", <<dim>>, "ValueError", 0)
            /\ UNCHANGED pat
       ELSE /\ ret' = Ret("kde", <<dim>>, "none", PatternKde(pat, dim))
            /\ pat' = PatternKdeState(pat, dim)
    /\ UNCHANGED tss

PatVector ==
    /\ pat.exists
    /\ IF PatternVectorRaises(pat)
       THEN /\ ret' = Ret("vector", <<>>, "ValueError", 0)
            /\ UNCHANGED pat
       ELSE /\ ret' = Ret("vector", <<>>, "none", PatternVector(pat))
            /\ pat' = PatternVectorState(pat)
    /\ UNCHANGED tss

PatLikelihood(value) ==
    /\ pat.exists
    /\ IF PatternLikelihoodRaises(pat, value)
       THEN /\ ret' = Ret("likelihood", <<value>>, "ValueError", 0)
            /\ UNCHANGED pat
       ELSE /\ ret' = Ret("likelihood", <<value>>, "none", PatternLikelihood(pat, value))
            /\ pat' = PatternLikelihoodState(pat, value)
    /\ UNCHANGED tss

PatConsecutive(min_length) ==
    /\ pat.exists
    /\ ret' = Ret("consecutive", <<min_length>>, "none", Consecutive(pat, min_length))
    /\ UNCHANGED <<pat, tss>>

PatNext ==
    \/ \E name \in CtorNames, vector_dimension \in CtorDims, modulo \in CtorModulos,
          min_periods \in CtorMinPeriods, min_items \in CtorMinItems :
          Construct(name, vector_dimension, modulo, min_periods, min_items)
    \/ \E value \in Values, item \in Items : PatAdd(value, item)
    \/ \E dim \in KdeDims : PatKde(dim)
    \/ PatVector
    \/ \E value \in LikValues : PatLikelihood(value)
    \/ \E min_length \in MinLengths : PatConsecutive(min_length)

SpecPattern == PatInit /\ [][PatNext]_vars

---------------------------------------------------------------------------
(* consecutive on a pattern that holds any set of period indices *)

MaxQuotient == 9

MaxMinLength == 3

RECURSIVE AddAll(_, _)
AddAll(p, values) ==
    IF values = <<>> THEN p
    ELSE AddAll(PatternAdd(p, Head(values), "None"), Tail(values))

\* the week pattern of TimeStampSetV2 after one observation in the middle of
\* each period of Q
PatternWithQuotients(Q) ==
    AddAll(NewPattern("week", 128, Res, 4, 12),
           [i \in 1 .. Cardinality(Q) |-> Sorted(Q)[i] * Res + Res \div 2])

ConsInit ==
    /\ \E Q \in SUBSET (0 .. MaxQuotient) : pat = PatternWithQuotients(Q)
    /\ tss = NoTss
    /\ ret = NoRet

ConsNext == \E min_length \in 1 .. MaxMinLength : PatConsecutive(min_length)

SpecConsecutive == ConsInit /\ [][ConsNext]_vars

---------------------------------------------------------------------------
(* likelihood, kde, vector and a rejected add on a pattern that holds any
   short list of observations *)

MaxObservations == 2

LookupModulos == {Res, 2 * Res, -Res}

\* 1.5 is 0.5 one period further on when the modulo is 1, and lies past the
\* last sample of the curve when the modulo is 2
LookupValues == {Res \div 2, Res + Res \div 2, 3 * Res - 1}

\* values that are no numbers
MalformedValues == {"abc"}

LookupInit ==
    /\ \E modulo \in LookupModulos, n \in 0 .. MaxObservations :
           \E values \in [1 .. n -> Values] :
               pat = AddAll(NewPattern("week", 2, modulo, 0, 0), values)
    /\ tss = NoTss
    /\ ret = NoRet

LookupNext ==
    \/ \E value \in LookupValues : PatLikelihood(value)
    \/ \E dim \in KdeDims : PatKde(dim)
    \/ PatVector
    \/ \E value \in MalformedValues : PatAddMalformed(value)

SpecLookup == LookupInit /\ [][LookupNext]_vars

\* the maximal runs of consecutive integers of Q of at least min_length
\* members, in ascending order
RunEnd(Q, a) == CHOOSE b \in Q : b >= a /\ (a .. b) \subseteq Q /\ b + 1 \notin Q

MaximalRuns(Q, min_length) ==
    LET starts == Sorted({a \in Q : a - 1 \notin Q /\ RunEnd(Q, a) - a + 1 >= min_length})
    IN  [k \in 1 .. Len(starts) |->
            [i \in 1 .. RunEnd(Q, starts[k]) - starts[k] + 1 |-> starts[k] + i - 1]]

\* C1: consecutive(min_length) returns exactly the maximal runs of consecutive
\* period indices of length >= min_length, in ascending order
C1_ConsecutiveReturnsMaximalRuns ==
    ret.op = "consecutive" =>
        ret.value = MaximalRuns(DOMAIN pat.quotients_idx, ret.args[1])

\* C1: on the indices {1,2,3,5,6,9} with min_length 2 the code returns only
\* [[1,2,3]]: the run [5,6] is lost
C1_ExampleLosesRun ==
    /\ DOMAIN pat.quotients_idx = {1, 2, 3, 5, 6, 9}
    /\ ret.op = "consecutive" /\ ret.args = <<2>>
    /\ ret.value = << <<1, 2, 3>> >>
    /\ MaximalRuns(DOMAIN pat.quotients_idx, 2) = << <<1, 2, 3>>, <<5, 6>> >>


---------------------------------------------------------------------------
(* datetime and the calendar phase functions *)

\* a datetime at a whole hour; tz is its utcoffset in hours
DateTime(year, month, day, hour, tz) ==
    [year |-> year, month |-> month, day |-> day, hour |-> hour, tz |-> tz]

\* datetime.MAXYEAR
MaxYear == 9999

IsLeap(y) == y % 4 = 0 /\ (y % 100 # 0 \/ y % 400 = 0)

DaysInMonth(y, m) ==
    IF m = 2 THEN (IF IsLeap(y) THEN 29 ELSE 28)
    ELSE IF m \in {4, 6, 9, 11} THEN 30 ELSE 31

DaysInYear(y) == IF IsLeap(y) THEN 366 ELSE 365

RECURSIVE DaysBeforeMonth(_, _)
DaysBeforeMonth(y, m) ==
    IF m = 1 THEN 0 ELSE DaysInMonth(y, m - 1) + DaysBeforeMonth(y, m - 1)

\* the days from 0001-01-01 to the first day of year y
DaysBeforeYear(y) ==
    (y - 1) * 365 + (y - 1) \div 4 - (y - 1) \div 100 + (y - 1) \div 400

\* date.toordinal()
Ordinal(ts) == DaysBeforeYear(ts.year) + DaysBeforeMonth(ts.year, ts.month) + ts.day

\* datetime.weekday(): Monday is 0
Weekday(ts) == (Ordinal(ts) + 6) % 7

\* the whole days from 1970-01-01 to the date of a UTC datetime
DaysSinceEpoch(ts) == Ordinal(ts) - Ordinal(DateTime(1970, 1, 1, 0, 0))

\* the order of aware datetimes: the hours from the epoch to the instant
Instant(ts) == DaysSinceEpoch(ts) * 24 + ts.hour - ts.tz

\* timestamp.replace(tzinfo=datetime.timezone.utc): the fields stay
ReplaceTzinfoUtc(ts) == [ts EXCEPT !.tz = 0]

days_of_week == <<"Monday", "Tuesday", "Wednesday", "Thursday", "Friday", "Saturday", "Sunday">>

\* timestamp_hour_of_day_of_week_of_month
TimestampHourOfDayOfWeekOfMonth(ts) ==
    <<ts.hour,
      ((ts.day + 1) \div 7) + 1,
      (ts.day + 6 - Weekday(ts)) \div 7,
      days_of_week[Weekday(ts) + 1]>>

\* timestamp_day
TimestampDay(ts) == DaysSinceEpoch(ts) * Res + (ts.hour * Res) \div 24

\* timestamp_week
TimestampWeek(ts) ==
    LET qr == DivMod(TimestampDay(ts), Res)
    IN  FloorDiv(qr[1] + 3, 7) * Res + (Weekday(ts) * Res + qr[2]) \div 7

\* timestamp_two_week
TimestampTwoWeek(ts) ==
    LET qr == DivMod(TimestampDay(ts), Res)
    IN  FloorDiv(qr[1] + 3, 14) * Res + (DivMod(qr[1] + 3, 14)[2] * Res + qr[2]) \div 14

\* _timestamp_month: _start + timedelta(days=35) leaves the range of dates in
\* December of MAXYEAR
TimestampMonthRaises(ts) ==
    IF ts.year = MaxYear /\ ts.month = 12 THEN "OverflowError" ELSE "none"

TimestampMonth(ts) ==
    ((ts.year - 1970) * 12 + ts.month - 1) * Res
        + (((ts.day - 1) * 24 + ts.hour) * Res) \div (DaysInMonth(ts.year, ts.month) * 24)

\* timestamp_n_month
TimestampNMonth(ts, n) ==
    LET qr == DivMod(TimestampMonth(ts), Res)
    IN  FloorDiv(qr[1], n) * Res + (DivMod(qr[1], n)[2] * Res + qr[2]) \div n

\* _timestamp_year: _start.replace(year=timestamp.year + 1) is out of range
\* in MAXYEAR
TimestampYearRaises(ts) == IF ts.year = MaxYear THEN "ValueError" ELSE "none"

TimestampYear(ts) ==
    (ts.year - 1970) * Res
        + (((DaysBeforeMonth(ts.year, ts.month) + ts.day - 1) * 24 + ts.hour) * Res)
              \div (DaysInYear(ts.year) * 24)

\* timestamp_n_year
TimestampNYear(ts, n) ==
    LET qr == DivMod(TimestampYear(ts), Res)
    IN  FloorDiv(qr[1], n) * Res + (DivMod(qr[1], n)[2] * Res + qr[2]) \div n

---------------------------------------------------------------------------
(* TimeStampSetV2 *)

\* the nine pattern attributes, in the order add and likelihood visit them
PatternAttrs ==
    <<"day", "week", "two_week", "month", "two_month", "three_month", "six_month",
      "year", "two_year">>

\* the phase function each attribute is fed from, and its n
PhaseRaises(attr, ts) ==
    IF attr \in {"day", "week", "two_week"} THEN "none"
    ELSE IF attr \in {"month", "two_month", "three_month", "six_month"}
         THEN TimestampMonthRaises(ts)
    ELSE TimestampYearRaises(ts)

Phase(attr, ts) ==
    CASE attr = "day" -> TimestampDay(ts)
      [] attr = "week" -> TimestampWeek(ts)
      [] attr = "two_week" -> TimestampTwoWeek(ts)
      [] attr = "month" -> TimestampNMonth(ts, 1)
      [] attr = "two_month" -> TimestampNMonth(ts, 2)
      [] attr = "three_month" -> TimestampNMonth(ts, 3)
      [] attr = "six_month" -> TimestampNMonth(ts, 6)
      [] attr = "year" -> TimestampNYear(ts, 1)
      [] attr = "two_year" -> TimestampNYear(ts, 2)

\* TimeStampSetV2.__init__
NewTimeStampSet ==
    [timestamps |-> <<>>,
     hour_day |-> [k \in {} |-> {}],
     n_day |-> [k \in {} |-> {}],
     n_week |-> [k \in {} |-> {}],
     pats |-> [attr \in {PatternAttrs[k] : k \in 1 .. 9} |->
        CASE attr = "day" -> NewPattern("day", 128, Res, 0, 12)
          [] attr = "week" -> NewPattern("week", 128, Res, 4, 12)
          [] attr = "two_week" -> NewPattern("fortnight", 128, Res, 12, 12)
          [] attr = "month" -> NewPattern("month", 128, Res, 4, 12)
          [] attr = "two_month" -> NewPattern("2-month", 128, Res, 6, 12)
          [] attr = "three_month" -> NewPattern("quarter", 128, Res, 4, 12)
          [] attr = "six_month" -> NewPattern("6-month", 128, Res, 4, 24)
          [] attr = "year" -> NewPattern("year", 128, Res, 4, 36)
          [] attr = "two_year" -> NewPattern("2-year", 128, Res, 4, 72)]]

\* dict.setdefault(key, set()).add(idx)
SetDefaultAdd(d, key, idx) ==
    [k \in DOMAIN d \cup {key} |->
        IF k = key THEN (IF key \in DOMAIN d THEN d[key] \cup {idx} ELSE {idx}) ELSE d[k]]

\* indexing that takes the index after the append
IndexTimestampAfterAppend(t, ts) ==
    LET timestamp_idx == Len(t.timestamps) + 1
        c == TimestampHourOfDayOfWeekOfMonth(ts)
    IN  [t EXCEPT !.timestamps = Append(t.timestamps, ts),
                  !.hour_day = SetDefaultAdd(t.hour_day, <<c[1], c[4]>>, timestamp_idx),
                  !.n_day = SetDefaultAdd(t.n_day, <<c[2], c[4]>>, timestamp_idx),
                  !.n_week = SetDefaultAdd(t.n_week, <<c[3], c[4]>>, timestamp_idx)]

\* the part of the loop body of add before the modular patterns
IndexTimestamp(t, ts) ==
    LET timestamp_idx == Len(t.timestamps)
        c == TimestampHourOfDayOfWeekOfMonth(ts)
    IN  [t EXCEPT !.timestamps = Append(t.timestamps, ts),
                  !.hour_day = SetDefaultAdd(t.hour_day, <<c[1], c[4]>>, timestamp_idx),
                  !.n_day = SetDefaultAdd(t.n_day, <<c[2], c[4]>>, timestamp_idx),
                  !.n_week = SetDefaultAdd(t.n_week, <<c[3], c[4]>>, timestamp_idx)]

\* the nine pattern adds of the loop body, from the k-th on: the set after
\* them and what was raised ("none" when all nine ran)
RECURSIVE RoutePatterns(_, _, _)
RoutePatterns(t, ts, k) ==
    IF k > Len(PatternAttrs) THEN [t |-> t, raised |-> "none"]
    ELSE LET attr == PatternAttrs[k]
         IN  IF PhaseRaises(attr, ts) # "none"
             THEN [t |-> t, raised |-> PhaseRaises(attr, ts)]
             ELSE RoutePatterns(
                      [t EXCEPT !.pats[attr] = PatternAdd(t.pats[attr], Phase(attr, ts), "None")],
                      ts, k + 1)

\* one pass of the loop of add
AddTimestamp(t, timestamp) ==
    LET ts == ReplaceTzinfoUtc(timestamp)
    IN  RoutePatterns(IndexTimestamp(t, ts), ts, 1)

\* add that goes on with the rest of the batch after a timestamp has failed
RECURSIVE TimeStampSetAddGoesOn(_, _)
TimeStampSetAddGoesOn(t, timestamps) ==
    IF timestamps = <<>> THEN [t |-> t, raised |-> "none"]
    ELSE LET one == AddTimestamp(t, Head(timestamps))
             rest == TimeStampSetAddGoesOn(one.t, Tail(timestamps))
         IN  IF one.raised # "none" THEN [t |-> rest.t, raised |-> one.raised]
             ELSE rest

\* TimeStampSetV2.add(*timestamps): the loop stops at the first exception
RECURSIVE TimeStampSetAdd(_, _)
TimeStampSetAdd(t, timestamps) ==
    IF timestamps = <<>> THEN [t |-> t, raised |-> "none"]
    ELSE LET one == AddTimestamp(t, Head(timestamps))
         IN  IF one.raised # "none" THEN one
             ELSE TimeStampSetAdd(one.t, Tail(timestamps))

\* TimeStampSetV2._patterns: the attributes of the valid patterns, in order
ValidAttrs(t) == SelectSeq(PatternAttrs, LAMBDA attr : IsValid(t.pats[attr]))

\* TimeStampSetV2.vectors: the dict as its items <<name, vector>> in order, and
\* the set after the vectors were computed
RECURSIVE VectorsLoop(_, _, _)
VectorsLoop(t, attrs, items) ==
    IF attrs = <<>> THEN [t |-> t, items |-> items]
    ELSE LET attr == Head(attrs)
             p == t.pats[attr]
         IN  IF IsValid(p)
             THEN VectorsLoop([t EXCEPT !.pats[attr] = PatternVectorState(p)], Tail(attrs),
                              Append(items, <<p.name, PatternVector(p)>>))
             ELSE VectorsLoop(t, Tail(attrs), items)

Vectors(t) == VectorsLoop(t, ValidAttrs(t), <<>>)

\* TimeStampSetV2.kdes(dim): the dict as its items <<name, curve>> in order,
\* and the set after the curves were computed
RECURSIVE KdesLoop(_, _, _, _)
KdesLoop(t, attrs, dim, items) ==
    IF attrs = <<>> THEN [t |-> t, raised |-> "none", items |-> items]
    ELSE LET attr == Head(attrs)
             p == t.pats[attr]
         IN  IF PatternKdeRaises(p, dim)
             THEN [t |-> t, raised |-> "ValueError", items |-> items]
             ELSE KdesLoop([t EXCEPT !.pats[attr] = PatternKdeState(p, dim)], Tail(attrs), dim,
                           Append(items, <<p.name, PatternKde(p, dim)>>))

Kdes(t, dim) == KdesLoop(t, ValidAttrs(t), dim, <<>>)

\* (sum(x ** 0.1 for x in xs) / len(xs)) ** 10, kept as the term it is
PowerMean(xs) == [kind |-> "power mean 0.1", xs |-> xs]

\* the number 0
Zero == [kind |-> "int 0", xs |-> <<>>]

\* likelihood without the sort
Unsorted(timestamps) == timestamps

\* sorted(timestamps): stable, ascending by instant
RECURSIVE Insort(_, _)
Insort(sorted, ts) ==
    IF sorted = <<>> THEN <<ts>>
    ELSE IF Instant(ts) < Instant(sorted[Len(sorted)])
         THEN Append(Insort(SubSeq(sorted, 1, Len(sorted) - 1), ts), sorted[Len(sorted)])
         ELSE Append(sorted, ts)

RECURSIVE SortedTimestamps(_)
SortedTimestamps(timestamps) ==
    IF timestamps = <<>> THEN <<>>
    ELSE Insort(SortedTimestamps(SubSeq(timestamps, 1, Len(timestamps) - 1)),
                timestamps[Len(timestamps)])

\* the likelihoods of the valid patterns only (self._patterns)
RECURSIVE LikelihoodsOfValid(_, _, _, _)
LikelihoodsOfValid(t, ts, k, xs) ==
    IF k > Len(PatternAttrs) THEN [t |-> t, raised |-> "none", xs |-> xs]
    ELSE LET attr == PatternAttrs[k]
             p == t.pats[attr]
         IN  IF ~IsValid(p) THEN LikelihoodsOfValid(t, ts, k + 1, xs)
             ELSE IF PhaseRaises(attr, ts) # "none"
             THEN [t |-> t, raised |-> PhaseRaises(attr, ts), xs |-> xs]
             ELSE IF PatternLikelihoodRaises(p, Phase(attr, ts))
             THEN [t |-> t, raised |-> "ValueError", xs |-> xs]
             ELSE LikelihoodsOfValid(
                      [t EXCEPT !.pats[attr] = PatternLikelihoodState(p, Phase(attr, ts))],
                      ts, k + 1, Append(xs, PatternLikelihood(p, Phase(attr, ts))))

\* the list of nine likelihoods of one timestamp, from the k-th pattern on
RECURSIVE LikelihoodsOf(_, _, _, _)
LikelihoodsOf(t, ts, k, xs) ==
    IF k > Len(PatternAttrs) THEN [t |-> t, raised |-> "none", xs |-> xs]
    ELSE LET attr == PatternAttrs[k]
             p == t.pats[attr]
         IN  IF PhaseRaises(attr, ts) # "none"
             THEN [t |-> t, raised |-> PhaseRaises(attr, ts), xs |-> xs]
             ELSE IF PatternLikelihoodRaises(p, Phase(attr, ts))
             THEN [t |-> t, raised |-> "ValueError", xs |-> xs]
             ELSE LikelihoodsOf(
                      [t EXCEPT !.pats[attr] = PatternLikelihoodState(p, Phase(attr, ts))],
                      ts, k + 1, Append(xs, PatternLikelihood(p, Phase(attr, ts))))

\* the loop of likelihood over the sorted timestamps
RECURSIVE LikelihoodLoop(_, _, _)
LikelihoodLoop(t, timestamps, timestamps_likelihoods) ==
    IF timestamps = <<>>
    THEN [t |-> t, raised |-> "none", value |-> timestamps_likelihoods]
    ELSE LET one == LikelihoodsOf(t, ReplaceTzinfoUtc(Head(timestamps)), 1, <<>>)
         IN  IF one.raised # "none"
             THEN [t |-> one.t, raised |-> one.raised, value |-> <<>>]
             ELSE LikelihoodLoop(one.t, Tail(timestamps),
                                 Append(timestamps_likelihoods, one.xs))

\* TimeStampSetV2.likelihood(*timestamps)
TimeStampSetLikelihood(t, timestamps) ==
    LET r == LikelihoodLoop(t, SortedTimestamps(timestamps), <<>>)
    IN  [r EXCEPT !.value = [i \in 1 .. Len(r.value) |-> PowerMean(r.value[i])]]

\* dot_product(vec_1, vec_2), kept as the term it is: its value is
\* DotNum / sqrt(len2[1] * len2[2]) of DotValue
DotProduct(vec_1, vec_2) == [vec_1 |-> vec_1, vec_2 |-> vec_2]

\* sum(x * y for x, y in zip(vec_1, vec_2)), over the elements lo .. hi, in
\* the unit of the numerators
RECURSIVE DotNum(_, _, _, _)
DotNum(c1, c2, lo, hi) ==
    IF lo > hi THEN 0
    ELSE IF lo = hi THEN KdeYs(c1)[lo].num * KdeYs(c2)[lo].num
    ELSE DotNum(c1, c2, lo, (lo + hi) \div 2) + DotNum(c1, c2, (lo + hi) \div 2 + 1, hi)

DotValue(d) ==
    [num |-> DotNum(d.vec_1.ys, d.vec_2.ys, 0, PyMin(d.vec_1.n, d.vec_2.n) - 1),
     len2 |-> <<SumSquares(d.vec_1.ys, 0, d.vec_1.n - 1),
                SumSquares(d.vec_2.ys, 0, d.vec_2.n - 1)>>]

\* the vector under a name in the items of a dict
HasName(items, name) == \E i \in 1 .. Len(items) : items[i][1] = name

Lookup(items, name) == items[CHOOSE i \in 1 .. Len(items) : items[i][1] = name][2]

\* the loop of similarity
RECURSIVE Similarities(_, _)
Similarities(self_items, other_vectors) ==
    IF self_items = <<>> THEN <<>>
    ELSE LET name == Head(self_items)[1]
             vector == Head(self_items)[2]
             rest == Similarities(Tail(self_items), other_vectors)
         IN  IF HasName(other_vectors, name)
             THEN <<DotProduct(vector, Lookup(other_vectors, name))>> \o rest
             ELSE rest

\* similarity without its case for no similar vectors
SimilarityValueUnguarded(similarities) == <<PowerMean(similarities), Len(similarities)>>

\* the pair similarity returns
SimilarityValue(similarities) ==
    IF Len(similarities) = 0 THEN <<Zero, 0>>
    ELSE <<PowerMean(similarities), Len(similarities)>>

---------------------------------------------------------------------------
(* Two TimeStampSetV2 objects and the calls on them *)

MaxLogBeforeAdd == 2

Insts == {"self", "other"}

\* noon UTC on 2020-01-01, and the same instant on the clock of UTC+8
NoonUtc == DateTime(2020, 1, 1, 12, 0)

SameInstantPlus8 == DateTime(2020, 1, 1, 20, 8)

\* a date in the last year datetime can hold
LastYear == DateTime(MaxYear, 6, 15, 0, 0)

\* 13:00 UTC on day 2k of month k of 2020
Monthly(k) == DateTime(2020, k, 2 * k, 13, 0)

\* one timestamp in each month of 2020, the latest first
YearOfMonths == [i \in 1 .. 12 |-> Monthly(13 - i)]

AddBatches ==
    {<<SameInstantPlus8, NoonUtc>>,
     <<NoonUtc, LastYear, SameInstantPlus8>>,
     YearOfMonths}

LikelihoodInputs == {<<>>, <<Monthly(2), NoonUtc, SameInstantPlus8>>}

\* the object the reads are called on; the other one is the argument of
\* similarity
Readers == {"self"}

Init ==
    /\ pat = NoPattern
    /\ tss = [inst \in Insts |-> NewTimeStampSet]
    /\ ret = NoRet

\* tss[inst].add(*timestamps)
Add(inst, timestamps) ==
    /\ Len(tss[inst].timestamps) <= MaxLogBeforeAdd
    /\ LET r == TimeStampSetAdd(tss[inst], timestamps)
       IN  /\ tss' = [tss EXCEPT ![inst] = r.t]
           /\ ret' = Ret("add", <<inst, timestamps>>, r.raised, 0)
    /\ UNCHANGED pat

\* tss[inst].likelihood(*timestamps)
Likelihood(inst, timestamps) ==
    /\ LET r == TimeStampSetLikelihood(tss[inst], timestamps)
       IN  /\ tss' = [tss EXCEPT ![inst] = r.t]
           /\ ret' = Ret("likelihood", <<inst, timestamps>>, r.raised, r.value)
    /\ UNCHANGED pat

\* tss[inst].vectors
GetVectors(inst) ==
    /\ LET r == Vectors(tss[inst])
       IN  /\ tss' = [tss EXCEPT ![inst] = r.t]
           /\ ret' = Ret("vectors", <<inst>>, "none", r.items)
    /\ UNCHANGED pat

\* tss[inst].similarity(tss[other]): other.vectors is read first, then
\* self.vectors
Similarity(inst, other) ==
    /\ LET o == Vectors(tss[other])
           after_other == [tss EXCEPT ![other] = o.t]
           me == Vectors(after_other[inst])
       IN  /\ tss' = [after_other EXCEPT ![inst] = me.t]
           /\ ret' = Ret("similarity", <<inst, other>>, "none",
                         SimilarityValue(Similarities(me.items, o.items)))
    /\ UNCHANGED pat

\* tss[inst].kdes(dim)
GetKdes(inst, dim) ==
    /\ LET r == Kdes(tss[inst], dim)
       IN  /\ tss' = [tss EXCEPT ![inst] = r.t]
           /\ ret' = Ret("kdes", <<inst, dim>>, r.raised, r.items)
    /\ UNCHANGED pat

\* tss[inst].consecutive(min_length): a dict, as its items in order
GetConsecutive(inst, min_length) ==
    /\ ret' = Ret("consecutive", <<inst, min_length>>, "none",
                  [k \in 1 .. Len(ValidAttrs(tss[inst])) |->
                      <<tss[inst].pats[ValidAttrs(tss[inst])[k]].name,
                        Consecutive(tss[inst].pats[ValidAttrs(tss[inst])[k]], min_length)>>])
    /\ UNCHANGED <<pat, tss>>

Next ==
    \/ \E inst \in Insts, timestamps \in AddBatches : Add(inst, timestamps)
    \/ \E inst \in Readers, timestamps \in LikelihoodInputs : Likelihood(inst, timestamps)
    \/ \E inst \in Readers : GetVectors(inst)
    \/ \E inst \in Readers : GetKdes(inst, KdeDefaultDim)
    \/ \E inst \in Readers, other \in Insts : Similarity(inst, other)
    \/ \E inst \in Readers, min_length \in MinLengths : GetConsecutive(inst, min_length)

Spec == Init /\ [][Next]_vars

---------------------------------------------------------------------------
(* Claims on TimeStampSetV2 (Spec) *)

AttrSet == {PatternAttrs[k] : k \in 1 .. Len(PatternAttrs)}

Observations(t, attr) == Len(t.pats[attr].remainders)

\* C2: in every state all nine patterns of a set hold the same number of
\* observations: a timestamp is routed to all nine or to none
C2_RoutingAtomic ==
    \A inst \in Insts : \A a, b \in AttrSet :
        Observations(tss[inst], a) = Observations(tss[inst], b)

\* C2: the state an add leaves when _timestamp_year raises on a date of year
\* 9999: seven patterns hold the observation and year and 2-year do not
C2_PartialRouting ==
    /\ ret.op = "add" /\ ret.raised = "ValueError"
    /\ LET t == tss[ret.args[1]]
       IN  /\ Len(t.timestamps) = 2
           /\ \A attr \in AttrSet \ {"year", "two_year"} : Observations(t, attr) = 2
           /\ Observations(t, "year") = 1 /\ Observations(t, "two_year") = 1

\* the common valid attributes of two sets, in the order of the patterns
CommonValid(a, b) ==
    SelectSeq(PatternAttrs, LAMBDA attr : IsValid(a.pats[attr]) /\ IsValid(b.pats[attr]))

ScoreOf(t, timestamp) ==
    PowerMean([k \in 1 .. 9 |->
        PatternLikelihood(t.pats[PatternAttrs[k]],
                          Phase(PatternAttrs[k], ReplaceTzinfoUtc(timestamp)))])

Rank(timestamps, i) ==
    1 + Cardinality({j \in 1 .. Len(timestamps) :
                        \/ Instant(timestamps[j]) < Instant(timestamps[i])
                        \/ (Instant(timestamps[j]) = Instant(timestamps[i]) /\ j < i)})

C9_SameInstantSamePhase ==
    (ret.op = "add" /\ ret.raised = "none") =>
        LET t == tss[ret.args[1]]
            timestamps == ret.args[2]
            base == Len(t.timestamps) - Len(timestamps)
        IN  \A i, j \in 1 .. Len(timestamps) :
                Instant(timestamps[i]) = Instant(timestamps[j]) =>
                    \A attr \in AttrSet :
                        t.pats[attr].remainders[base + i] = t.pats[attr].remainders[base + j]

\* C9: noon UTC and the same instant given as 20:00 at UTC+8 are routed to
\* the day pattern with the phases 12/24 and 20/24
C9_ZoneChangesPhase ==
    /\ ret.op = "add" /\ ret.raised = "none"
    /\ ret.args[2] = <<SameInstantPlus8, NoonUtc>>
    /\ Instant(SameInstantPlus8) = Instant(NoonUtc)
    /\ LET t == tss[ret.args[1]]
       IN  /\ Len(t.timestamps) = 2
           /\ t.pats["day"].remainders = <<(20 * Res) \div 24, (12 * Res) \div 24>>

\* a timestamp for which one of the phase functions raises
Fails(timestamp) ==
    \E attr \in AttrSet : PhaseRaises(attr, ReplaceTzinfoUtc(timestamp)) # "none"

\* the place of the first timestamp of a batch that fails
FirstFailing(timestamps) ==
    CHOOSE k \in 1 .. Len(timestamps) :
        Fails(timestamps[k]) /\ \A j \in 1 .. k - 1 : ~Fails(timestamps[j])

\* the members of all the buckets of an auxiliary index
Indexed(index) == UNION {index[key] : key \in DOMAIN index}

\* timestamp i of a batch added to `before` is all there in `after`: in the
\* log, in its bucket of each index and in each of the nine patterns
Committed(before, after, timestamps, i) ==
    LET ts == ReplaceTzinfoUtc(timestamps[i])
        pos == Len(before.timestamps) + i
        c == TimestampHourOfDayOfWeekOfMonth(ts)
    IN  /\ Len(after.timestamps) >= pos /\ after.timestamps[pos] = ts
        /\ <<c[1], c[4]>> \in DOMAIN after.hour_day /\ pos - 1 \in after.hour_day[<<c[1], c[4]>>]
        /\ <<c[2], c[4]>> \in DOMAIN after.n_day /\ pos - 1 \in after.n_day[<<c[2], c[4]>>]
        /\ <<c[3], c[4]>> \in DOMAIN after.n_week /\ pos - 1 \in after.n_week[<<c[3], c[4]>>]
        /\ \A attr \in AttrSet :
               LET at == Observations(before, attr) + i
               IN  /\ Observations(after, attr) >= at
                   /\ after.pats[attr].remainders[at]
                          = DivMod(Phase(attr, ts), after.pats[attr].modulo)[2]

\* nothing of the timestamps after the k-th of a batch is in `after`
NothingBeyond(before, after, k) ==
    /\ Len(after.timestamps) <= Len(before.timestamps) + k
    /\ \A index \in {after.hour_day, after.n_day, after.n_week} :
           \A idx \in Indexed(index) : idx < Len(before.timestamps) + k
    /\ \A attr \in AttrSet : Observations(after, attr) <= Observations(before, attr) + k

\* C12: a batch add that fails at timestamp k leaves the timestamps before
\* it fully committed (log, auxiliary indices, all nine patterns) and has
\* recorded nothing of the timestamps after it
C12_FailedBatchKeepsEarlierOnly ==
    [][\A inst \in Insts :
          (ret'.op = "add" /\ ret'.raised # "none" /\ ret'.args[1] = inst) =>
              LET timestamps == ret'.args[2]
                  k == FirstFailing(timestamps)
              IN  /\ \E i \in 1 .. Len(timestamps) : Fails(timestamps[i])
                  /\ \A i \in 1 .. k - 1 : Committed(tss[inst], tss'[inst], timestamps, i)
                  /\ NothingBeyond(tss[inst], tss'[inst], k)]_vars

\* C12 witness: the batch noon, year 9999, noon at UTC+8 has failed at its
\* second timestamp: noon is in the log and in the year pattern, the third
\* timestamp is nowhere
C12_FailedAtSecondOfThree ==
    /\ ret.op = "add" /\ ret.raised = "ValueError"
    /\ ret.args[2] = <<NoonUtc, LastYear, SameInstantPlus8>>
    /\ LET t == tss[ret.args[1]]
       IN  /\ t.timestamps = <<NoonUtc, LastYear>>
           /\ 0 \in t.hour_day[<<12, "Wednesday">>]
           /\ t.pats["year"].remainders = <<DivMod(TimestampNYear(NoonUtc, 1), Res)[2]>>
           /\ Observations(t, "day") = 2

\* an auxiliary index partitions the indices of the log: each index of the
\* log is in exactly one bucket, and no bucket holds anything else
Partitions(index, t) ==
    /\ \A idx \in 0 .. Len(t.timestamps) - 1 :
           Cardinality({key \in DOMAIN index : idx \in index[key]}) = 1
    /\ Indexed(index) \subseteq 0 .. Len(t.timestamps) - 1

\* each index of the log is in the buckets of its own timestamp
InOwnBuckets(t) ==
    \A idx \in 0 .. Len(t.timestamps) - 1 :
        LET c == TimestampHourOfDayOfWeekOfMonth(t.timestamps[idx + 1])
        IN  /\ <<c[1], c[4]>> \in DOMAIN t.hour_day /\ idx \in t.hour_day[<<c[1], c[4]>>]
            /\ <<c[2], c[4]>> \in DOMAIN t.n_day /\ idx \in t.n_day[<<c[2], c[4]>>]
            /\ <<c[3], c[4]>> \in DOMAIN t.n_week /\ idx \in t.n_week[<<c[3], c[4]>>]

IndicesPartition ==
    \A inst \in Insts :
        /\ Partitions(tss[inst].hour_day, tss[inst])
        /\ Partitions(tss[inst].n_day, tss[inst])
        /\ Partitions(tss[inst].n_week, tss[inst])
        /\ InOwnBuckets(tss[inst])

\* the log before a step is the beginning of the log after it
LogOnlyGrows ==
    \A inst \in Insts :
        /\ Len(tss'[inst].timestamps) >= Len(tss[inst].timestamps)
        /\ SubSeq(tss'[inst].timestamps, 1, Len(tss[inst].timestamps)) = tss[inst].timestamps

\* C16: in every state, and so after any sequence of successful adds, each
\* of hour_day, n_day and n_week partitions the indices 0 .. len - 1 of the
\* timestamps log (every index in exactly one bucket, no other index in any
\* bucket), and no step changes or removes an entry of the log
C16_LogAppendOnlyIndicesPartition ==
    []IndicesPartition /\ [][LogOnlyGrows]_vars

\* C16 witness: after two timestamps added and then twelve more at once,
\* the first two still at their places, hour_day with more than one bucket
\* and a bucket with more than one index
C16_FourteenIndexed ==
    /\ ret.op = "add" /\ ret.raised = "none"
    /\ ret.args[2] = YearOfMonths
    /\ LET t == tss[ret.args[1]]
       IN  /\ Len(t.timestamps) = 14
           /\ SubSeq(t.timestamps, 1, 2) = <<ReplaceTzinfoUtc(SameInstantPlus8), NoonUtc>>
           /\ SubSeq(t.timestamps, 3, 14) = YearOfMonths
           /\ Cardinality(DOMAIN t.hour_day) > 1
           /\ \E key \in DOMAIN t.hour_day : Cardinality(t.hour_day[key]) > 1

\* the operations that read
ReadOps == {"likelihood", "similarity", "vectors", "kdes", "consecutive"}

\* a pattern without its two caches, and whether it is valid
WithoutCaches(p) ==
    [pattern |-> [p EXCEPT !.kde = [d \in {} |-> NoCurve], !.vector = EmptyTuple],
     is_valid |-> IsValid(p)]

\* a set without the caches of its patterns
SetWithoutCaches(t) ==
    [t EXCEPT !.pats = [attr \in AttrSet |-> WithoutCaches(t.pats[attr])]]

\* C17: a call of likelihood, similarity, vectors, kdes or consecutive,
\* returning or raising, changes nothing but cached curves and vectors: in
\* self and in other the log, the three indices and each pattern's min, max,
\* remainders, two indices, thresholds and is_valid are as before the call
C17_ReadsChangeCachesOnly ==
    [][ret'.op \in ReadOps =>
           \A inst \in Insts : SetWithoutCaches(tss'[inst]) = SetWithoutCaches(tss[inst])]_vars

\* C17 witness: after self.similarity(other) both sets hold a cached vector
\* of the day pattern, and other still holds its twelve timestamps
C17_SimilarityFilledBothCaches ==
    /\ ret.op = "similarity" /\ ret.args = <<"self", "other">> /\ ret.value[2] > 0
    /\ tss["self"].pats["day"].vector.n = 128
    /\ tss["other"].pats["day"].vector.n = 128
    /\ tss["other"].timestamps = YearOfMonths
    /\ Observations(tss["other"], "day") = 12

---------------------------------------------------------------------------
(* Claims on one ModuloPattern (SpecPattern) *)

SpansAtLeast(p, k) ==
    IF p.remainders = <<>> THEN 0 >= k
    ELSE IF p.modulo > 0 THEN p.max - p.min >= k * p.modulo
    ELSE p.max - p.min <= k * p.modulo

ClaimedValid(p) == SpansAtLeast(p, p.min_periods) /\ Len(p.remainders) >= p.min_items

\* C4 as stated: in every state is_valid is exactly
\* (max - min) / modulo >= min_periods and count(remainders) >= min_items
C4_IsValidIffThresholds == pat.exists => (IsValid(pat) <=> ClaimedValid(pat))

\* C4 amended: the same, for a pattern whose modulo is positive
C4_IsValidIffThresholdsPositiveModulo ==
    (pat.exists /\ pat.modulo > 0) => (IsValid(pat) <=> ClaimedValid(pat))

\* C4 witness: a valid pattern and thresholds that both bind
C4_ValidWithBindingThresholds ==
    /\ pat.exists /\ pat.modulo = 2 * Res /\ pat.min_periods = 0 /\ pat.min_items = 2
    /\ Len(pat.remainders) = 2 /\ IsValid(pat)

\* n_periods a <= n_periods b
PeriodsLeq(a, b) == b.inf \/ (~a.inf /\ a.num * b.den <= b.num * a.den)

Monotone(p, q) ==
    /\ PeriodsLeq(NPeriods(p), NPeriods(q))
    /\ Len(p.remainders) <= Len(q.remainders)
    /\ IsValid(p) => IsValid(q)

\* C5 as stated: no step decreases n_periods or the number of remainders,
\* and is_valid, once true, stays true
C5_ValidityMonotone == [][(pat.exists /\ pat'.exists) => Monotone(pat, pat')]_vars

\* C5 amended: the same, for a pattern whose modulo is positive
C5_ValidityMonotonePositiveModulo ==
    [][(pat.exists /\ pat'.exists /\ pat.modulo > 0) => Monotone(pat, pat')]_vars

\* C5 witness: a pattern valid after its first two observations (they span
\* more than two periods) and still valid after a third between them
C5_StillValidAfterThirdAdd ==
    /\ pat.exists /\ pat.modulo = Res /\ pat.min_periods = 2 /\ pat.min_items = 2
    /\ Len(pat.remainders) = 3 /\ ret.op = "add" /\ ret.args[1] = Res \div 2
    /\ pat.min = -(Res \div 4) /\ pat.max = 3 * Res
    /\ IsValid(pat)

InvalidCtorArgs(args) == Len(args[1]) = 0 \/ ~(args[2] > 0) \/ args[3] = 0

\* C10 as stated: an empty name, a non-positive vector dimension or a zero
\* modulo fails at construction with a ConfigurationError, and no pattern
\* results
C10_CtorRaisesConfigurationError ==
    (ret.op = "init" /\ InvalidCtorArgs(ret.args)) =>
        (ret.raised = "ConfigurationError" /\ ~pat.exists)

\* C10 amended: such a construction fails at construction with a ValueError
\* (empty name, zero modulo) or else a TypeError (non-positive vector
\* dimension), no pattern results, and every pattern that exists has a
\* non-empty name, a nonzero modulo and a positive vector dimension
C10_CtorRaisesBuiltinError ==
    /\ (ret.op = "init" /\ InvalidCtorArgs(ret.args)) =>
           /\ ~pat.exists
           /\ ret.raised = IF Len(ret.args[1]) = 0 \/ ret.args[3] = 0
                            THEN "ValueError" ELSE "TypeError"
    /\ (ret.op = "init" /\ ~InvalidCtorArgs(ret.args)) => (ret.raised = "none" /\ pat.exists)
    /\ pat.exists => (Len(pat.name) > 0 /\ pat.modulo # 0 /\ pat.vector_dimension > 0)

\* C10 witness: a construction rejected for its vector dimension alone
C10_RejectedDimension ==
    /\ ret.op = "init" /\ ret.raised = "TypeError" /\ ~pat.exists
    /\ Len(ret.args[1]) > 0 /\ ret.args[3] # 0 /\ ret.args[2] <= 0

AtOrAfter(c, j, r) == KdeXs(c)[j].num >= r * KdeXs(c)[j].den

\* the least index whose sampled x is >= r, and 0 when there is none
LeastAtOrAfter(c, r) ==
    IF \A j \in 0 .. c.n - 1 : ~AtOrAfter(c, j, r) THEN 0
    ELSE CHOOSE i \in 0 .. c.n - 1 :
             AtOrAfter(c, i, r) /\ \A j \in 0 .. i - 1 : ~AtOrAfter(c, j, r)

\* the numbers of periods by which a value is shifted
Shifts == {-1, 1, 2}

C15_KdeOverOwnModulo ==
    (pat.exists /\ ret.op = "kde" /\ ret.raised = "none") =>
        LET c == ret.value
            sample_count == ret.args[1]
            n == Len(pat.remainders)
        IN  /\ Len(c.fit) = 3 * n
            /\ \A i \in 1 .. n :
                   /\ c.fit[i] = pat.remainders[i] - pat.modulo
                   /\ c.fit[n + i] = pat.remainders[i]
                   /\ c.fit[2 * n + i] = pat.remainders[i] + pat.modulo
            /\ DOMAIN KdeXs(c) = 0 .. sample_count - 1
            /\ \A j \in DOMAIN KdeXs(c) :
                   KdeXs(c)[j].num * sample_count = j * pat.modulo * KdeXs(c)[j].den

\* C15: the curve of a pattern of modulo 2 that holds the remainder 1.0 is
\* fitted at -1, 0 and 1 and sampled over [0, 1)
C15_ModuloTwoOverUnitPeriod ==
    /\ pat.exists /\ pat.modulo = 2 * Res /\ pat.remainders = <<Res>>
    /\ ret.op = "kde" /\ ret.raised = "none"
    /\ ret.value.fit = <<-Res, 0, Res>>
    /\ ret.value.lo = 0 /\ ret.value.hi = Res

=============================================================================
